---- MODULE Spec2Model ----
(***************************************************************************)
(* Circuit breaker middleware (CircuitBreakerMiddleware) over a rolling    *)
(* statistics window (Status).                                             *)
(*                                                                         *)
(* Time is a discrete clock `now`.  A timer fires in the tick in which it  *)
(* falls due, never earlier; the clock does not advance past a due timer.  *)
(* Within one tick the due timers and the other events (requests, the      *)
(* finish/close events of their responses, calls of the public methods)    *)
(* run in any order.  All handlers run on one thread; the only suspension  *)
(* point inside a handler is the `await` of fail(), whose continuation is  *)
(* a microtask: it runs before any timer callback, but after the rest of   *)
(* the synchronous run it was started in, in which further events may be   *)
(* emitted on the responses and the application may call middleware(),     *)
(* success(), open(), close() or shutdown().  The finish and close         *)
(* listeners of a response are never removed: each event emitted on it     *)
(* runs its listener again.                                                *)
(***************************************************************************)
EXTENDS Integers, Sequences, FiniteSets, TLC

\* ---------------------------------------------------------------- bounds
MaxTime == 2        \* the clock stops advancing here
MaxCalls == 2       \* number of requests passed to the middleware
MaxSignals == 2     \* number of finish/close events and success() calls
MaxIncrements == 3  \* increments held by a window used on its own
MaxSamples == 5     \* latency samples held by a window fed with samples

\* options.timeout === false (the completion deadline is disabled)
TimeoutDisabled == -1

VARIABLES
    options,        \* CircuitBreakerMiddleware.options (fixed at construction)
    now,            \* Date.now()
    buckets,        \* Status.buckets, index 1 is the current bucket
    rotationTimer,  \* Status.rotationTimer (setInterval handle)
    state,          \* CircuitBreakerMiddleware.state
    warmUp,         \* CircuitBreakerMiddleware.warmUp
    resetTimeout,   \* CircuitBreakerMiddleware.resetTimeout (setTimeout handle)
    warmupTimeout,  \* CircuitBreakerMiddleware.warmupTimeout (setTimeout handle)
    strayTimers,    \* due times of reset callbacks still scheduled whose handle was overwritten
    calls,          \* the requests forwarded: the closures of their finish/close listeners
    nSignals,       \* number of finish/close events and success() calls so far
    nCalls,         \* number of requests passed to the middleware so far
    failPending,    \* number of fail() calls suspended at their await
    tally,          \* outcomes signalled so far, while the window holds all of them
    recorded,       \* the increments made on the window directly, each with the rotation then due next
    last            \* what the last step did (observable effects of the handler)

vars == <<options, now, buckets, rotationTimer, state, warmUp,
          resetTimeout, warmupTimeout, strayTimers, calls, nSignals,
          nCalls, failPending, tally, recorded, last>>

\* ------------------------------------------------------------ timer handles
\* A handle says whether its callback is still scheduled, and for when.  A
\* handle whose timer has fired or was cleared behaves like null everywhere
\* the code uses it (clearTimeout does nothing), so both are Null.
Null == [pending |-> FALSE, due |-> 0]
setTimeout(due) == [pending |-> TRUE, due |-> due]
clearTimeout(h) == Null

\* =================================================================== Status
createBucket ==
    [failures |-> 0, successes |-> 0, fires |-> 0, timeouts |-> 0,
     latencyTimes |-> <<>>, isCircuitBreakerOpen |-> FALSE]

\* new Status(options): rollingCountBuckets empty buckets, rotation started
StatusBuckets(n) == [i \in 1..n |-> createBucket]

\* the setInterval period of rotateBuckets
rotationInterval == options.rollingCountTimeout \div options.rollingCountBuckets

\* a rotation that forgets to pop the tail
rotate_noPop(bs) == <<createBucket>> \o bs

\* the setInterval callback: pop the tail, unshift a fresh bucket
rotate(bs) == <<createBucket>> \o SubSeq(bs, 1, Len(bs) - 1)

\* an increment that drops the latency sample
increment_noLatency(bs, property, latency) ==
    [bs EXCEPT ![1] = [@ EXCEPT ![property] = @ + 1]]

\* increment(property, latencyRunTime?): latency is <<>> (undefined) or <<ms>>
increment(bs, property, latency) ==
    [bs EXCEPT ![1] = [[@ EXCEPT ![property] = @ + 1]
                          EXCEPT !.latencyTimes = @ \o latency]]

statusOpen(bs) == [bs EXCEPT ![1].isCircuitBreakerOpen = TRUE]

statusClose(bs) == [bs EXCEPT ![1].isCircuitBreakerOpen = FALSE]

RECURSIVE SumField(_, _)
SumField(bs, f) == IF bs = <<>> THEN 0 ELSE bs[1][f] + SumField(Tail(bs), f)

RECURSIVE ConcatLatency(_)
ConcatLatency(bs) ==
    IF bs = <<>> THEN <<>> ELSE bs[1].latencyTimes \o ConcatLatency(Tail(bs))

RECURSIVE Insert(_, _)
Insert(x, s) ==
    IF s = <<>> THEN <<x>>
    ELSE IF x <= s[1] THEN <<x>> \o s ELSE <<s[1]>> \o Insert(x, Tail(s))

\* latencyTimes.sort((a, b) => a - b)
RECURSIVE SortAsc(_)
SortAsc(s) == IF s = <<>> THEN <<>> ELSE Insert(s[1], SortAsc(Tail(s)))

RECURSIVE SumSeq(_)
SumSeq(s) == IF s = <<>> THEN 0 ELSE s[1] + SumSeq(Tail(s))

\* Status.percentiles, in thousandths: 0.0, 0.25, 0.5, 0.75, 0.9, 0.95, 0.99,
\* 0.995, 1
percentiles == <<0, 250, 500, 750, 900, 950, 990, 995, 1000>>

\* Math.ceil(percentile * n) for a percentile given in thousandths.  For the
\* percentiles of the list and n up to 2000 the double product has the ceiling
\* of the exact one.
CeilOf(percentile, n) == (percentile * n + 999) \div 1000

\* a percentile computed as the lower rank: floor(percentile * n)
calculatePercentile_floor(percentile, latencyTimes) ==
    IF Len(latencyTimes) = 0 THEN 0
    ELSE IF percentile <= 0 THEN latencyTimes[1]
    ELSE IF percentile >= 1000 THEN latencyTimes[Len(latencyTimes)]
    ELSE LET index == (percentile * Len(latencyTimes)) \div 1000 - 1
         IN  latencyTimes[IF index < 0 THEN 1 ELSE index + 1]

\* calculatePercentile(percentile, latencyTimes), latencyTimes sorted; the
\* code's index counts from 0
calculatePercentile(percentile, latencyTimes) ==
    IF Len(latencyTimes) = 0 THEN 0
    ELSE IF percentile <= 0 THEN latencyTimes[1]
    ELSE IF percentile >= 1000 THEN latencyTimes[Len(latencyTimes)]
    ELSE LET index == CeilOf(percentile, Len(latencyTimes)) - 1
         IN  latencyTimes[index + 1]

\* get stats(): the aggregate over all buckets (the counters, the sorted
\* samples and the flag; latencyMean and percentiles follow)
stats(bs) ==
    [failures |-> SumField(bs, "failures"),
     successes |-> SumField(bs, "successes"),
     fires |-> SumField(bs, "fires"),
     timeouts |-> SumField(bs, "timeouts"),
     latencyTimes |-> SortAsc(ConcatLatency(bs)),
     isCircuitBreakerOpen |-> bs[1].isCircuitBreakerOpen]

\* stats.latencyMean: the quotient sum / length, kept as the pair of its
\* terms; 0 when there is no sample
latencyMean(bs) ==
    LET sorted == stats(bs).latencyTimes
    IN  IF Len(sorted) > 0
        THEN [sum |-> SumSeq(sorted), length |-> Len(sorted)]
        ELSE [sum |-> 0, length |-> 1]

\* stats.percentiles: the value of each percentile of the list, by position
statsPercentiles(bs) ==
    LET sorted == stats(bs).latencyTimes
    IN  [i \in 1..Len(percentiles) |->
            IF options.rollingPercentilesEnabled
            THEN calculatePercentile(percentiles[i], sorted)
            ELSE 0]

\* ================================================= CircuitBreakerMiddleware
\* The fields of the breaker and of its Status as one record, so that the
\* methods are functions from record to record.
Cur ==
    [state |-> state, warmUp |-> warmUp,
     resetTimeout |-> resetTimeout, warmupTimeout |-> warmupTimeout,
     strayTimers |-> strayTimers, buckets |-> buckets,
     rotationTimer |-> rotationTimer]

Apply(w) ==
    /\ state' = w.state
    /\ warmUp' = w.warmUp
    /\ resetTimeout' = w.resetTimeout
    /\ warmupTimeout' = w.warmupTimeout
    /\ strayTimers' = w.strayTimers
    /\ buckets' = w.buckets
    /\ rotationTimer' = w.rotationTimer

\* startTimer() that schedules nothing
startTimer_noTimer(w) == w

\* startTimer(): the handle is overwritten without clearing the old timer
\* (lastTimerAt, which no code reads, is left out)
startTimer(w) ==
    [w EXCEPT !.strayTimers = IF w.resetTimeout.pending
                              THEN Append(@, w.resetTimeout.due) ELSE @,
              !.resetTimeout = setTimeout(now + options.resetTimeout)]

\* open() without its state check: a redundant open() restarts the timer
open_noGuard(w) ==
    startTimer([w EXCEPT !.state = "open", !.buckets = statusOpen(@)])

\* open() that restarts the reset timer when the circuit is already open
open_restartsTimer(w) ==
    IF w.state # "open"
    THEN startTimer([w EXCEPT !.state = "open", !.buckets = statusOpen(@)])
    ELSE startTimer(w)

\* open()
open(w) ==
    IF w.state # "open"
    THEN startTimer([w EXCEPT !.state = "open", !.buckets = statusOpen(@)])
    ELSE w

\* close() that leaves the reset timer running
close_noClear(w) ==
    IF w.state # "closed"
    THEN [w EXCEPT !.state = "closed", !.buckets = statusClose(@)]
    ELSE w

\* close()
close(w) ==
    IF w.state # "closed"
    THEN [w EXCEPT !.resetTimeout = clearTimeout(@),
                   !.state = "closed",
                   !.buckets = statusClose(@)]
    ELSE w

\* shutdown() that leaves the window rotating
shutdown_noStatus(w) ==
    [w EXCEPT !.state = "shutdown",
              !.resetTimeout = clearTimeout(@),
              !.warmupTimeout = clearTimeout(@)]

\* shutdown() that leaves the reset timer running
shutdown_keepsReset(w) ==
    [w EXCEPT !.state = "shutdown",
              !.warmupTimeout = clearTimeout(@),
              !.rotationTimer = [active |-> FALSE, due |-> 0]]

\* shutdown(), with Status.shutdown() (clearInterval of the rotation timer)
shutdown(w) ==
    [w EXCEPT !.state = "shutdown",
              !.resetTimeout = clearTimeout(@),
              !.warmupTimeout = clearTimeout(@),
              !.rotationTimer = [active |-> FALSE, due |-> 0]]

\* success() that only counts, and leaves the probe state alone
success_noClose(w) == [w EXCEPT !.buckets = increment(@, "successes", <<>>)]

\* success()
success(w) ==
    LET w1 == [w EXCEPT !.buckets = increment(@, "successes", <<>>)]
    IN  IF w1.state = "half-open" THEN close(w1) ELSE w1

\* errorRate = (stats.failures / stats.fires) * 100 in IEEE double arithmetic:
\* the exact rational num/den, and whether the two roundings leave the computed
\* value above it.  RoundsUp lists the pairs <<failures, fires>> with
\* fires <= 40 and failures <= 2 * fires whose exact rate is an integer that the
\* computed value exceeds, e.g. (7 / 25) * 100 = 28.000000000000004; for every
\* other pair in that range the computed value compares with an integer
\* threshold as the exact one does.  For den = 0 the value is Infinity
\* (num > 0) or NaN (num = 0).
RoundsUp ==
    {<<11, 10>>, <<11, 20>>, <<22, 20>>, <<7, 25>>, <<14, 25>>, <<28, 25>>,
     <<33, 30>>, <<22, 40>>, <<44, 40>>}
\* the rate as a fraction, with the "* 100" forgotten
errorRateOf_noPercent(s) == [num |-> s.failures, den |-> s.fires, up |-> FALSE]

errorRateOf(s) ==
    [num |-> s.failures * 100, den |-> s.fires,
     up |-> <<s.failures, s.fires>> \in RoundsUp]

\* errorRate >= threshold
RateGE(r, t) == IF r.den = 0 THEN r.num > 0 ELSE r.num >= t * r.den

\* errorRate > threshold
RateGT(r, t) ==
    IF r.den = 0 THEN r.num > 0
    ELSE \/ r.num > t * r.den
         \/ r.num = t * r.den /\ r.up

\* fail() that does not count the failure
failIncrement_none(w) == w

\* fail() that counts the failure twice
failIncrement_twice(w) ==
    [w EXCEPT !.buckets = increment(increment(@, "failures", <<>>), "failures", <<>>)]

\* fail(), up to its await: status.increment("failures")
failIncrement(w) == [w EXCEPT !.buckets = increment(@, "failures", <<>>)]

\* the open decision without the volume test
failDecide_noVolume(w) ==
    IF w.warmUp THEN w
    ELSE IF RateGT(errorRateOf(stats(w.buckets)), options.errorThresholdPercentage)
            \/ w.state = "half-open"
         THEN open(w)
         ELSE w

\* the open decision without the half-open bypass
failDecide_noHalfOpen(w) ==
    IF w.warmUp THEN w
    ELSE LET s == stats(w.buckets)
         IN  IF s.fires < options.volumeThreshold
             THEN w
             ELSE IF RateGT(errorRateOf(s), options.errorThresholdPercentage)
                  THEN open(w)
                  ELSE w

\* the open decision without the warm-up test
failDecide_noWarmUp(w) ==
    LET s == stats(w.buckets)
    IN  IF s.fires < options.volumeThreshold /\ ~(w.state = "half-open")
        THEN w
        ELSE IF RateGT(errorRateOf(s), options.errorThresholdPercentage)
                \/ w.state = "half-open"
             THEN open(w)
             ELSE w

\* fail(), after its await: the open decision
failDecide(w) ==
    IF w.warmUp THEN w
    ELSE LET s == stats(w.buckets)
         IN  IF s.fires < options.volumeThreshold /\ ~(w.state = "half-open")
             THEN w
             ELSE IF RateGT(errorRateOf(s), options.errorThresholdPercentage)
                     \/ w.state = "half-open"
                  THEN open(w)
                  ELSE w

\* an error predicate that takes only server errors for failures
isError_serverOnly(statusCode) == statusCode >= 500

\* options.isError(res): the default, res.statusCode >= 400, or the custom
\* predicate res.statusCode >= 500
isError(statusCode) ==
    IF options.isError = "default" THEN statusCode >= 400 ELSE statusCode >= 500

\* ------------------------------------------------------------ configuration
\* Durations are in clock ticks.  rollingCountTimeout / rollingCountBuckets is
\* a whole number in every configuration.
Base ==
    [logOnly |-> FALSE, timeout |-> 2, resetTimeout |-> 1,
     rollingCountTimeout |-> 2, rollingCountBuckets |-> 2,
     rollingPercentilesEnabled |-> TRUE, errorThresholdPercentage |-> 50,
     enabled |-> TRUE, allowWarmUp |-> FALSE, volumeThreshold |-> 0,
     isError |-> "default"]

\* the configurations of Spec: a breaker that rejects when open, without
\* warm-up, and a log-only breaker with warm-up and a custom error predicate
Configs ==
    {[Base EXCEPT !.volumeThreshold = 2],
     [Base EXCEPT !.volumeThreshold = 1, !.allowWarmUp = TRUE, !.logOnly = TRUE,
                  !.isError = "custom"]}

\* res.statusCode at the finish event
StatusCodes == {200, 404, 500}

\* ----------------------------------------------------------------- history
\* op: the handler or method that ran; pre: this.state when it started; result: what it
\* did (next / 503, success / failure); timer: the deadline timer of the request
\* concerned when it started; code: res.statusCode seen by a finish handler
Ev(op, pre, result, timer) ==
    [op |-> op, pre |-> pre, result |-> result, timer |-> timer, code |-> 0]

None == Ev("", "", "", "")

Remove(s, i) == SubSeq(s, 1, i - 1) \o SubSeq(s, i + 1, Len(s))

\* The outcomes signalled since construction, each the one signal of its
\* request and before its deadline: so many successes and so many failures.
\* The tally is Void once the window's counters are no longer made of exactly
\* these outcomes: a bucket was rotated, a deadline fired, a request was
\* answered 503, a signal came after the deadline of its request or after
\* another signal of the same request, or success() was called directly.
Void == [successes |-> -1, failures |-> -1]

tallySignal(t, c, outcome) ==
    IF t = Void \/ c.timer = "fired" \/ c.signalled
    THEN Void ELSE [t EXCEPT ![outcome] = @ + 1]

\* ---------------------------------------------------------------- Init
\* new CircuitBreakerMiddleware(options) at time 0
InitWith(cfgs) ==
    /\ options \in cfgs
    /\ now = 0
    /\ buckets = StatusBuckets(options.rollingCountBuckets)
    /\ rotationTimer = [active |-> TRUE, due |-> rotationInterval]
    /\ state = "closed"
    /\ warmUp = options.allowWarmUp
    /\ resetTimeout = Null
    /\ warmupTimeout = IF options.allowWarmUp
                       THEN setTimeout(options.rollingCountTimeout) ELSE Null
    /\ strayTimers = <<>>
    /\ calls = <<>>
    /\ nSignals = 0
    /\ nCalls = 0
    /\ failPending = 0
    /\ tally = [successes |-> 0, failures |-> 0]
    /\ recorded = <<>>
    /\ last = Ev("init", "closed", "", "")

Init == InitWith(Configs)

\* ---------------------------------------------------------------- actions
\* some scheduled callback is due
TimerDue ==
    \/ rotationTimer.active /\ now >= rotationTimer.due
    \/ resetTimeout.pending /\ now >= resetTimeout.due
    \/ \E i \in 1..Len(strayTimers) : now >= strayTimers[i]
    \/ warmupTimeout.pending /\ now >= warmupTimeout.due
    \/ \E i \in 1..Len(calls) :
           calls[i].timer = "pending" /\ now >= calls[i].startedAt + options.timeout

\* the clock advances, once every callback due has run
Tick ==
    /\ failPending = 0
    /\ now < MaxTime
    /\ ~TimerDue
    /\ now' = now + 1
    /\ last' = None
    /\ UNCHANGED <<options, recorded, buckets, rotationTimer, state, warmUp,
                   resetTimeout, warmupTimeout, strayTimers, calls,
                   nSignals, nCalls, failPending, tally>>

\* the setInterval callback of rotateBuckets
RotateBuckets ==
    /\ failPending = 0
    /\ rotationTimer.active
    /\ now >= rotationTimer.due
    /\ buckets' = rotate(buckets)
    /\ rotationTimer' = [active |-> TRUE, due |-> now + rotationInterval]
    /\ tally' = Void
    /\ last' = None
    /\ UNCHANGED <<options, recorded, now, state, warmUp, resetTimeout, warmupTimeout,
                   strayTimers, calls, nSignals, nCalls, failPending>>

\* the due times of the reset callbacks scheduled in the event loop
PendingResets ==
    (IF resetTimeout.pending THEN {resetTimeout.due} ELSE {})
        \cup {strayTimers[i] : i \in 1..Len(strayTimers)}

\* the setTimeout callback of startTimer: this.state = "half-open"
ResetTimerFires ==
    /\ failPending = 0
    /\ \E d \in PendingResets :
        /\ now >= d
        /\ IF resetTimeout.pending /\ resetTimeout.due = d
           THEN /\ resetTimeout' = Null
                /\ strayTimers' = strayTimers
           ELSE /\ resetTimeout' = resetTimeout
                /\ strayTimers' =
                       Remove(strayTimers,
                              CHOOSE i \in 1..Len(strayTimers) : strayTimers[i] = d)
    /\ state' = "half-open"
    /\ last' = Ev("reset", state, "", "")
    /\ UNCHANGED <<options, recorded, now, buckets, rotationTimer, warmUp, warmupTimeout,
                   calls, nSignals, nCalls, failPending, tally>>

\* the setTimeout callback of the constructor: this.warmUp = false
WarmupTimerFires ==
    /\ failPending = 0
    /\ warmupTimeout.pending
    /\ now >= warmupTimeout.due
    /\ warmUp' = FALSE
    /\ warmupTimeout' = Null
    /\ last' = None
    /\ UNCHANGED <<options, recorded, now, buckets, rotationTimer, state, resetTimeout,
                   strayTimers, calls, nSignals, nCalls, failPending, tally>>

\* what the listeners of a forwarded request close over: startedAt and the
\* deadline timer behind timeoutId (none, pending, fired or cleared); and
\* whether the response has emitted finish or close yet
newCall ==
    [startedAt |-> now,
     timer |-> IF options.timeout # TimeoutDisabled THEN "pending" ELSE "none",
     signalled |-> FALSE]

\* a guard that rejects in every state but closed
middleware_rejectNotClosed(w) ==
    LET w1 == [w EXCEPT !.buckets = increment(@, "fires", <<>>)]
    IN  IF w1.state # "closed" /\ ~options.logOnly
        THEN [w |-> w1, calls |-> calls, result |-> "503"]
        ELSE [w |-> w1, calls |-> Append(calls, newCall), result |-> "next"]

\* a guard that ignores logOnly
middleware_noLogOnly(w) ==
    LET w1 == [w EXCEPT !.buckets = increment(@, "fires", <<>>)]
    IN  IF w1.state = "open"
        THEN [w |-> w1, calls |-> calls, result |-> "503"]
        ELSE [w |-> w1, calls |-> Append(calls, newCall), result |-> "next"]

\* a guard that counts only the requests it forwards
middleware_countsForwarded(w) ==
    IF w.state = "open" /\ ~options.logOnly
    THEN [w |-> w, calls |-> calls, result |-> "503"]
    ELSE [w |-> [w EXCEPT !.buckets = increment(@, "fires", <<>>)],
          calls |-> Append(calls, newCall), result |-> "next"]

\* middleware(req, res, next): what the guard does with one request
middleware(w) ==
    IF options.enabled = FALSE
    THEN [w |-> w, calls |-> calls, result |-> "next"]
    ELSE LET w1 == [w EXCEPT !.buckets = increment(@, "fires", <<>>)]
         IN  IF w1.state = "open" /\ ~options.logOnly
             THEN [w |-> w1, calls |-> calls, result |-> "503"]
             ELSE [w |-> w1, calls |-> Append(calls, newCall), result |-> "next"]

\* A request arrives, or the application passes one to middleware() in the
\* synchronous run of another event.
Middleware ==
    /\ nCalls < MaxCalls
    /\ LET r == middleware(Cur)
       IN  /\ Apply(r.w)
           /\ calls' = r.calls
           /\ tally' = IF r.result = "503" THEN Void ELSE tally
           /\ last' = Ev("middleware", state, r.result, "")
    /\ nCalls' = nCalls + 1
    /\ UNCHANGED <<options, recorded, now, nSignals, failPending>>

\* finish and close handlers that leave the deadline timer running
clearTimeoutId_forgotten(timer) == timer

\* if (timeoutId) clearTimeout(timeoutId), in the finish and close handlers
clearTimeoutId(timer) == IF timer = "pending" THEN "cleared" ELSE timer

\* the closure of a request once one of its listeners has run
signalled(c) == [c EXCEPT !.timer = clearTimeoutId(@), !.signalled = TRUE]

\* the deadline timer of a request fires
DeadlineFires ==
    /\ failPending = 0
    /\ \E i \in 1..Len(calls) :
        /\ calls[i].timer = "pending"
        /\ now >= calls[i].startedAt + options.timeout
        /\ LET latency == now - calls[i].startedAt
               w1 == [Cur EXCEPT !.buckets = increment(@, "timeouts", <<latency>>)]
           IN  Apply(failIncrement(w1))
        /\ calls' = [calls EXCEPT ![i].timer = "fired"]
        /\ last' = Ev("timeout", state, "failure", "pending")
    /\ failPending' = failPending + 1
    /\ tally' = Void
    /\ UNCHANGED <<options, recorded, now, nCalls, nSignals>>

\* res emits "finish", for the first time or again: the listener stays
\* registered and runs on every emit, before or after the deadline timer has
\* fired, and before the continuation of a fail() started in the same run.
Finish ==
    /\ nSignals < MaxSignals
    /\ \E i \in 1..Len(calls) : \E code \in StatusCodes :
        /\ calls' = [calls EXCEPT ![i] = signalled(@)]
        /\ IF isError(code)
           THEN /\ Apply(failIncrement(Cur))
                /\ failPending' = failPending + 1
                /\ tally' = tallySignal(tally, calls[i], "failures")
                /\ last' = [Ev("finish", state, "failure", calls[i].timer)
                               EXCEPT !.code = code]
           ELSE /\ Apply(success(Cur))
                /\ failPending' = failPending
                /\ tally' = tallySignal(tally, calls[i], "successes")
                /\ last' = [Ev("finish", state, "success", calls[i].timer)
                               EXCEPT !.code = code]
    /\ nSignals' = nSignals + 1
    /\ UNCHANGED <<options, recorded, now, nCalls>>

\* res emits "close", for the first time or again (the server emits it after
\* "finish" on a response that completed)
CloseSignal ==
    /\ nSignals < MaxSignals
    /\ \E i \in 1..Len(calls) :
        /\ calls' = [calls EXCEPT ![i] = signalled(@)]
        /\ Apply(failIncrement(Cur))
        /\ tally' = tallySignal(tally, calls[i], "failures")
        /\ last' = Ev("close", state, "failure", calls[i].timer)
    /\ failPending' = failPending + 1
    /\ nSignals' = nSignals + 1
    /\ UNCHANGED <<options, recorded, now, nCalls>>

\* the continuation of a fail() after its await; the continuations run in
\* the order of their calls and all do the same
FailContinue ==
    /\ failPending > 0
    /\ Apply(failDecide(Cur))
    /\ failPending' = failPending - 1
    /\ last' = Ev("fail", state, "", "")
    /\ UNCHANGED <<options, recorded, now, calls, nSignals, nCalls, tally>>

\* The application calls success(), like every public method, from its own
\* code: in a callback of its own, or in the synchronous run that delivered a
\* signal to the breaker (a listener registered after the breaker's on the
\* same event), which ends before the continuation of a pending fail() runs.
Success ==
    /\ nSignals < MaxSignals
    /\ Apply(success(Cur))
    /\ nSignals' = nSignals + 1
    /\ tally' = Void
    /\ last' = Ev("success()", state, "success", "")
    /\ UNCHANGED <<options, recorded, now, calls, nCalls, failPending>>

\* the application calls open()
Open ==
    /\ Apply(open(Cur))
    /\ last' = Ev("open()", state, "", "")
    /\ UNCHANGED <<options, recorded, now, calls, nSignals, nCalls, failPending, tally>>

\* the application calls close()
Close ==
    /\ Apply(close(Cur))
    /\ last' = Ev("close()", state, "", "")
    /\ UNCHANGED <<options, recorded, now, calls, nSignals, nCalls, failPending, tally>>

\* the application calls shutdown()
Shutdown ==
    /\ Apply(shutdown(Cur))
    /\ last' = None
    /\ UNCHANGED <<options, recorded, now, calls, nSignals, nCalls, failPending, tally>>

Next ==
    \/ Tick
    \/ RotateBuckets
    \/ ResetTimerFires
    \/ WarmupTimerFires
    \/ Middleware
    \/ DeadlineFires
    \/ Finish
    \/ CloseSignal
    \/ FailContinue
    \/ Success
    \/ Open
    \/ Close
    \/ Shutdown

Spec == Init /\ [][Next]_vars

\* A turn of the event loop: a callback that is due runs (a timer, the
\* rotation interval), or the continuation of an awaited promise runs, or the
\* clock advances when nothing is due.
EventLoop ==
    \/ Tick
    \/ RotateBuckets
    \/ ResetTimerFires
    \/ WarmupTimerFires
    \/ DeadlineFires
    \/ FailContinue

\* The event loop does not stop while it has something to run.  Nothing is
\* assumed of the requests, of their signals, or of the application's calls.
Fairness == WF_vars(EventLoop)

\* a breaker with warm-up over a window of one bucket, without a deadline for
\* its requests (timeout: false): the warm-up ends at time 1, so that failures
\* open the circuit while the clock still runs
InitLive ==
    InitWith({[Base EXCEPT !.allowWarmUp = TRUE, !.volumeThreshold = 1,
                           !.rollingCountBuckets = 1, !.rollingCountTimeout = 1,
                           !.timeout = TimeoutDisabled]})

\* the steps of a breaker whose requests have no deadline timer
NextLive ==
    \/ Tick
    \/ RotateBuckets
    \/ ResetTimerFires
    \/ WarmupTimerFires
    \/ Middleware
    \/ Finish
    \/ CloseSignal
    \/ FailContinue
    \/ Success
    \/ Open
    \/ Close
    \/ Shutdown

SpecLive == InitLive /\ [][NextLive]_vars /\ Fairness

\* ------------------------------------------------------- the window alone
\* A Status object used directly, as its unit tests do: increments of any
\* counter, with or without a latency sample, the rotation timer, open(),
\* close() and shutdown().  The breaker around it stays as constructed.
StatusConfigs ==
    {Base, [Base EXCEPT !.rollingCountTimeout = 3, !.rollingCountBuckets = 3]}

\* the counters of a bucket
Counters == {"failures", "successes", "fires", "timeouts"}

\* the number of increments the window holds
Held(bs) ==
    SumField(bs, "failures") + SumField(bs, "successes")
        + SumField(bs, "fires") + SumField(bs, "timeouts")

InitStatus == InitWith(StatusConfigs)

\* status.increment(property) and status.increment(property, 100)
StatusIncrement ==
    /\ Held(buckets) < MaxIncrements
    /\ \E property \in Counters : \E latency \in {<<>>, <<100>>} :
           buckets' = increment(buckets, property, latency)
    /\ last' = None
    /\ UNCHANGED <<options, recorded, now, rotationTimer, state, warmUp, resetTimeout,
                   warmupTimeout, strayTimers, calls, nSignals, nCalls,
                   failPending, tally>>

\* status.open()
StatusOpen ==
    /\ buckets' = statusOpen(buckets)
    /\ last' = None
    /\ UNCHANGED <<options, recorded, now, rotationTimer, state, warmUp, resetTimeout,
                   warmupTimeout, strayTimers, calls, nSignals, nCalls,
                   failPending, tally>>

\* status.close()
StatusClose ==
    /\ buckets' = statusClose(buckets)
    /\ last' = None
    /\ UNCHANGED <<options, recorded, now, rotationTimer, state, warmUp, resetTimeout,
                   warmupTimeout, strayTimers, calls, nSignals, nCalls,
                   failPending, tally>>

\* status.shutdown()
StatusShutdown ==
    /\ rotationTimer' = [active |-> FALSE, due |-> 0]
    /\ last' = None
    /\ UNCHANGED <<options, recorded, now, buckets, state, warmUp, resetTimeout,
                   warmupTimeout, strayTimers, calls, nSignals, nCalls,
                   failPending, tally>>

NextStatus ==
    \/ Tick
    \/ RotateBuckets
    \/ StatusIncrement
    \/ StatusOpen
    \/ StatusClose
    \/ StatusShutdown

SpecStatus == InitStatus /\ [][NextStatus]_vars

\* ------------------------------------------------- the latency samples alone
\* A Status object fed with latency samples, as in the unit tests of stats:
\* status.increment("successes", latency), and the rotation timer.
Latencies == {50, 100, 150, 200, 250}

InitSamples == InitWith({[Base EXCEPT !.rollingCountTimeout = 4]})

StatusSample ==
    /\ Held(buckets) < MaxSamples
    /\ \E l \in Latencies : buckets' = increment(buckets, "successes", <<l>>)
    /\ last' = None
    /\ UNCHANGED <<options, recorded, now, rotationTimer, state, warmUp, resetTimeout,
                   warmupTimeout, strayTimers, calls, nSignals, nCalls,
                   failPending, tally>>

NextSamples ==
    \/ Tick
    \/ RotateBuckets
    \/ StatusSample

SpecSamples == InitSamples /\ [][NextSamples]_vars

\* ------------------------------------------------- the window as it ages
\* A Status object whose increments are written down as they are made:
\* status.increment(property) and status.increment(property, 100), each with
\* the due time of the rotation that comes next, and the rotation timer.
StatusRecord ==
    /\ Len(recorded) < MaxIncrements
    /\ \E property \in Counters : \E latency \in {<<>>, <<100>>} :
        /\ buckets' = increment(buckets, property, latency)
        /\ recorded' = Append(recorded, [property |-> property, latency |-> latency,
                                         nextRotation |-> rotationTimer.due])
    /\ last' = None
    /\ UNCHANGED <<options, now, rotationTimer, state, warmUp, resetTimeout,
                   warmupTimeout, strayTimers, calls, nSignals, nCalls,
                   failPending, tally>>

NextAging ==
    \/ Tick
    \/ RotateBuckets
    \/ StatusRecord

SpecAging == InitStatus /\ [][NextAging]_vars

\* ------------------------------------------- construction with any options
\* The options a caller may hand to the constructor, which merges them into
\* the defaults without looking at them: a threshold above 100 %, a window
\* without buckets, and the log-only breaker with warm-up.
ConfigsTried ==
    {[Base EXCEPT !.errorThresholdPercentage = 150],
     [Base EXCEPT !.rollingCountBuckets = 0],
     [Base EXCEPT !.volumeThreshold = 1, !.allowWarmUp = TRUE, !.logOnly = TRUE,
                  !.isError = "custom"]}

\* new CircuitBreakerMiddleware(o) returns.  Its only failure is a TypeError:
\* the constructor reads this.status.stats for the child logger, and the
\* getter reads this.buckets[0].isCircuitBreakerOpen, which throws when the
\* window has no bucket.
constructs(o) == o.rollingCountBuckets >= 1

InitConfig == InitWith({o \in ConfigsTried : constructs(o)})

SpecConfig == InitConfig /\ [][Next]_vars

\* ================================================================== claims
\* the snapshot read from the window now, and after the step
S == stats(buckets)
SNext == stats(buckets')

\* the step is one request passing through the guard
GuardStep == nCalls' = nCalls + 1

\* the step is the open decision of a reported failure
DecisionStep == failPending' = failPending - 1

\* the step starts a failure report: it counts the failure and leaves its
\* open decision pending
ReportStep == failPending' = failPending + 1

\* the record of a request admitted now
Admitted ==
    [startedAt |-> now,
     timer |-> IF options.timeout # TimeoutDisabled THEN "pending" ELSE "none",
     signalled |-> FALSE]

\* C1: once the state is shutdown it stays shutdown, whatever happens next
\* (open(), close(), requests, outcome reports, timers).
C1_ShutdownIsTerminal == [][state = "shutdown" => state' = "shutdown"]_vars

\* C2: in state closed, the decision of a reported failure leaves the circuit
\* closed (no reset timer, flag untouched) when the snapshot, read after the
\* failure was counted, has fewer invocations than volumeThreshold.
C2_BelowVolumeStaysClosed ==
    [][(DecisionStep /\ state = "closed" /\ S.fires < options.volumeThreshold)
         => (state' = "closed" /\ resetTimeout' = resetTimeout /\ buckets' = buckets)]_vars

\* a failure was decided in closed, outside warm-up, with a 100% error rate
\* on fewer invocations than the threshold, and the circuit is still closed
C2_Witness ==
    /\ last.op = "fail" /\ last.pre = "closed" /\ state = "closed"
    /\ ~warmUp
    /\ S.fires >= 1 /\ S.fires < options.volumeThreshold
    /\ S.failures >= S.fires

\* C3: with warm-up inactive and errorThresholdPercentage < 100, the decision
\* of the failure report that brings the window to volumeThreshold+1
\* invocations, all made and none rotated out, all failed, leaves the circuit
\* open; when that decision is the transition from closed, the reset timer is
\* started for now + resetTimeout and the current bucket is marked open.
C3_OpensAtVolumePlusOne ==
    [][(/\ DecisionStep
        /\ ~warmUp
        /\ state # "shutdown"
        /\ options.errorThresholdPercentage < 100
        /\ nCalls = options.volumeThreshold + 1
        /\ S.fires = nCalls
        /\ S.failures = nCalls
        /\ S.successes = 0)
         => (/\ state' = "open"
             /\ state = "closed" =>
                  (/\ resetTimeout' = setTimeout(now + options.resetTimeout)
                   /\ buckets'[1].isCircuitBreakerOpen))]_vars

\* two or more invocations, all failed, and the last report opened the circuit
C3_Witness ==
    /\ last.op = "fail" /\ last.pre = "closed" /\ state = "open"
    /\ options.volumeThreshold >= 1
    /\ nCalls = options.volumeThreshold + 1
    /\ S.fires = nCalls /\ S.failures = nCalls /\ S.successes = 0
    /\ resetTimeout.pending /\ buckets[1].isCircuitBreakerOpen

\* the value the code computes for the rate is defined and <= t
ComputedRateAtMost(s, t) ==
    /\ s.fires # 0
    /\ \/ s.failures * 100 < t * s.fires
       \/ s.failures * 100 = t * s.fires /\ <<s.failures, s.fires>> \notin RoundsUp

\* C4: in state closed, the decision of a reported failure leaves the circuit
\* closed whenever the rate computed from the snapshot (which includes that
\* failure) is less than or equal to errorThresholdPercentage.
C4_AtOrBelowThresholdStaysClosed ==
    [][(/\ DecisionStep
        /\ state = "closed"
        /\ ComputedRateAtMost(S, options.errorThresholdPercentage))
         => (state' = "closed" /\ resetTimeout' = resetTimeout /\ buckets' = buckets)]_vars

\* a failure was decided in closed with enough volume and a rate exactly at
\* the threshold, and the circuit is still closed
C4_Witness ==
    /\ last.op = "fail" /\ last.pre = "closed" /\ state = "closed"
    /\ ~warmUp
    /\ S.fires >= options.volumeThreshold /\ S.fires > 0
    /\ S.failures * 100 = options.errorThresholdPercentage * S.fires

\* C5: open becomes half-open only when the pending reset timer fires, at or
\* after its due time; every transition into open sets that due time to
\* now + resetTimeout, and nothing changes the timer while the state stays open.
C5_HalfOpenOnlyAfterCooldown ==
    [][/\ (state = "open" /\ state' = "half-open")
            => (/\ resetTimeout.pending
                /\ now >= resetTimeout.due
                /\ resetTimeout' = Null
                /\ strayTimers' = strayTimers)
       /\ (state # "open" /\ state' = "open")
            => resetTimeout' = setTimeout(now + options.resetTimeout)
       /\ (state = "open" /\ state' = "open")
            => resetTimeout' = resetTimeout]_vars

\* the reset timer fired in state open, a full resetTimeout into the run
C5_Witness ==
    /\ last.op = "reset" /\ last.pre = "open" /\ state = "half-open"
    /\ now >= options.resetTimeout
    /\ ~resetTimeout.pending

\* C6: in state half-open, a step that records a success closes the circuit:
\* state closed, current bucket marked closed, reset timer cleared; neither
\* the volume nor the error rate is consulted.
C6_SuccessClosesHalfOpen ==
    [][(state = "half-open" /\ SNext.successes = S.successes + 1)
         => (/\ state' = "closed"
             /\ ~buckets'[1].isCircuitBreakerOpen
             /\ ~resetTimeout'.pending)]_vars

\* a success was reported in half-open and closed the circuit, with fewer
\* invocations in the window than volumeThreshold
C6_Witness ==
    /\ last.op = "finish" /\ last.result = "success" /\ last.pre = "half-open"
    /\ state = "closed" /\ ~buckets[1].isCircuitBreakerOpen
    /\ S.fires < options.volumeThreshold

\* C7 as stated: in every half-open state the decision of a reported failure
\* opens the circuit and starts a new reset timer.
C7_HalfOpenFailureAlwaysOpens ==
    [][(DecisionStep /\ state = "half-open")
         => (state' = "open" /\ resetTimeout' = setTimeout(now + options.resetTimeout))]_vars

\* C7 amended: in every half-open state in which warm-up is not active, the
\* decision of a reported failure opens the circuit, marks the current bucket
\* open and starts a new reset timer, without the volume and rate tests.
C7_HalfOpenFailureOpens ==
    [][(DecisionStep /\ state = "half-open" /\ ~warmUp)
         => (/\ state' = "open"
             /\ buckets'[1].isCircuitBreakerOpen
             /\ resetTimeout' = setTimeout(now + options.resetTimeout))]_vars

\* a failure was decided in half-open with fewer invocations in the window
\* than volumeThreshold, and the circuit is open again
C7_Witness ==
    /\ last.op = "fail" /\ last.pre = "half-open" /\ state = "open"
    /\ S.fires < options.volumeThreshold
    /\ resetTimeout.pending

\* C8: while warmUp is set, the decision of a reported failure changes
\* nothing (state, timers, buckets), and the step that reports a failure
\* still counts it; once warmUp is cleared in a breaker built with warm-up, a
\* failure decided in closed with enough volume and every invocation failed
\* opens the circuit.
C8_WarmUpAbsorbsFailures ==
    [][/\ (DecisionStep /\ warmUp)
            => (/\ state' = state
                /\ resetTimeout' = resetTimeout
                /\ buckets' = buckets)
       /\ (warmUp /\ ReportStep)
            => SNext.failures = S.failures + 1
       /\ (/\ DecisionStep /\ options.allowWarmUp /\ ~warmUp
           /\ state = "closed"
           /\ S.fires >= options.volumeThreshold
           /\ S.failures >= S.fires
           /\ options.errorThresholdPercentage < 100)
            => state' = "open"]_vars

\* during warm-up a failure was decided with enough volume and a 100% error
\* rate, it is counted, and the circuit is still closed
C8_Witness ==
    /\ last.op = "fail" /\ last.pre = "closed" /\ state = "closed"
    /\ warmUp
    /\ S.fires >= 1 /\ S.fires >= options.volumeThreshold
    /\ S.failures >= S.fires

\* C9: with the breaker enabled and logOnly off, a request is forwarded
\* exactly when the state is not open, and then its handlers are registered
\* and its deadline timer started; in state open it is answered 503 and
\* nothing is registered or started.
C9_AdmissionIffNotOpen ==
    [][(GuardStep /\ options.enabled /\ ~options.logOnly)
         => IF state = "open"
            THEN last'.result = "503" /\ calls' = calls
            ELSE last'.result = "next" /\ calls' = Append(calls, Admitted)]_vars

\* a request was rejected with 503 in state open
C9_Witness ==
    /\ last.op = "middleware" /\ last.result = "503" /\ last.pre = "open"
    /\ options.enabled /\ ~options.logOnly
    /\ S.fires >= 1

\* C10: with logOnly on and the state open, a request is counted, forwarded
\* (never answered 503) and registered with its deadline timer exactly as a
\* request admitted in any other state; while the state is open its finish or
\* close signal counts one success or one failure, and its deadline one
\* timeout and one failure.
C10_LogOnlyForwardsWhenOpen ==
    [][/\ (GuardStep /\ options.enabled /\ options.logOnly)
            => (/\ last'.result = "next"
                /\ calls' = Append(calls, Admitted)
                /\ SNext.fires = S.fires + 1)
       /\ (options.logOnly /\ state = "open" /\ last'.op \in {"finish", "close"})
            => (SNext.successes + SNext.failures = S.successes + S.failures + 1)
       /\ (options.logOnly /\ state = "open" /\ last'.op = "timeout")
            => (/\ SNext.timeouts = S.timeouts + 1
                /\ SNext.failures = S.failures + 1)]_vars

\* a request was forwarded in state open under logOnly
C10_Witness ==
    /\ last.op = "middleware" /\ last.result = "next" /\ last.pre = "open"
    /\ options.logOnly /\ state = "open"
    /\ calls # <<>> /\ calls[Len(calls)] = Admitted

\* the step is a finish or close signal of a request
SignalStep == last'.op \in {"finish", "close"}

\* the step is a run of the rotation callback
RotationStep ==
    rotationTimer.active /\ rotationTimer'.active /\ rotationTimer' # rotationTimer

\* the step is the deadline callback of a request
TimeoutStep == ReportStep /\ last'.op = "timeout"

\* C11: the finish or close signal of a request whose deadline timer has
\* already fired changes no counter and reports no outcome to the state
\* machine: the window, the state and the timers stay as they are and no
\* fail() is started.
C11_LateSignalCountsNothing ==
    [][(SignalStep /\ last'.timer = "fired")
         => (/\ buckets' = buckets
             /\ state' = state
             /\ resetTimeout' = resetTimeout
             /\ failPending' = failPending)]_vars

\* the value the code computes for the rate is above t (Infinity when the
\* window holds failures and no invocation)
ComputedRateAbove(s, t) ==
    IF s.fires = 0 THEN s.failures > 0
    ELSE \/ s.failures * 100 > t * s.fires
         \/ s.failures * 100 = t * s.fires /\ <<s.failures, s.fires>> \in RoundsUp

\* the rule by which the decision of a reported failure opens the circuit
FailureOpens ==
    /\ ~warmUp
    /\ \/ state = "half-open"
       \/ /\ S.fires >= options.volumeThreshold
          /\ ComputedRateAbove(S, options.errorThresholdPercentage)

\* C12: when the deadline timer of a request fires, the current bucket gets
\* one more timeout and one more failure and the elapsed time as a latency
\* sample, nothing else in the window changes, and a failure report is
\* started; its decision, like that of every failure report, opens the circuit
\* exactly by the warm-up / half-open / volume / rate rule.
C12_TimeoutCountsTimeoutAndFailure ==
    [][/\ TimeoutStep
            => (/\ buckets'[1].timeouts = buckets[1].timeouts + 1
                /\ buckets'[1].failures = buckets[1].failures + 1
                /\ buckets'[1].successes = buckets[1].successes
                /\ buckets'[1].fires = buckets[1].fires
                /\ \E i \in 1..Len(calls) :
                       /\ calls[i].timer = "pending"
                       /\ calls' = [calls EXCEPT ![i].timer = "fired"]
                       /\ buckets'[1].latencyTimes =
                              Append(buckets[1].latencyTimes, now - calls[i].startedAt)
                /\ \A i \in 2..Len(buckets) : buckets'[i] = buckets[i]
                /\ Len(buckets') = Len(buckets))
       /\ DecisionStep
            => state' = (IF FailureOpens THEN "open" ELSE state)]_vars

\* a deadline fired in closed: one timeout, one failure and the elapsed time
\* are in the window, and the decision of that failure opened the circuit
C12_Witness ==
    /\ last.op = "fail" /\ last.pre = "closed" /\ state = "open"
    /\ S.timeouts = 1 /\ S.failures = 1 /\ S.successes = 0
    /\ S.latencyTimes = <<options.timeout>>
    /\ \E i \in 1..Len(calls) : calls[i].timer = "fired"

\* C13: a request that signals finish or close before its deadline leaves no
\* deadline timer scheduled (no step ends with the timer of a signalled
\* request still running, and a timer that did not fire before the signal
\* never fires) and its signal records no timeout; a timeout is only ever
\* recorded by the pending timer of a request that has not signalled yet, at
\* or after its deadline.
C13_SignalCancelsDeadline ==
    [][/\ \A i \in 1..Len(calls') :
              calls'[i].signalled => calls'[i].timer # "pending"
       /\ \A i \in 1..Len(calls) :
              (calls[i].signalled /\ calls[i].timer # "fired")
                  => calls'[i].timer # "fired"
       /\ SignalStep => buckets'[1].timeouts = buckets[1].timeouts
       /\ (~RotationStep /\ buckets'[1].timeouts # buckets[1].timeouts)
            => \E i \in 1..Len(calls) :
                   /\ calls[i].timer = "pending" /\ ~calls[i].signalled
                   /\ now >= calls[i].startedAt + options.timeout
                   /\ calls' = [calls EXCEPT ![i].timer = "fired"]]_vars

\* a request signalled while its deadline timer was pending; the deadline has
\* come since: the timer is cleared, nothing is due and the window holds no
\* timeout
C13_Witness ==
    /\ options.timeout # TimeoutDisabled
    /\ Len(calls) = 1 /\ calls[1].signalled /\ calls[1].timer = "cleared"
    /\ now >= calls[1].startedAt + options.timeout
    /\ ~TimerDue /\ failPending = 0
    /\ S.timeouts = 0

\* C14: every step that ends in state shutdown ends with no reset timer,
\* warm-up timer or rotation timer pending, and in a state where a further
\* shutdown() changes nothing; and once the rotation
\* timer is cancelled it stays cancelled and the ring keeps its buckets in
\* place, increments landing in the current one.
C14_ShutdownStopsTimers ==
    [][/\ state' = "shutdown"
            => (/\ ~resetTimeout'.pending /\ strayTimers' = <<>>
                /\ ~warmupTimeout'.pending
                /\ ~rotationTimer'.active
                /\ (shutdown(Cur) = Cur)')
       /\ ~rotationTimer.active
            => (/\ ~rotationTimer'.active
                /\ Len(buckets') = Len(buckets)
                /\ \A i \in 2..Len(buckets) : buckets'[i] = buckets[i]
                /\ buckets'[1].fires >= buckets[1].fires
                /\ buckets'[1].failures >= buckets[1].failures
                /\ buckets'[1].successes >= buckets[1].successes
                /\ buckets'[1].timeouts >= buckets[1].timeouts)]_vars

\* shutdown() came before the first rotation was due; two rotation intervals
\* later a request is counted in the same, never rotated, current bucket
C14_Witness ==
    /\ state = "shutdown" /\ ~rotationTimer.active
    /\ tally # Void
    /\ now >= 2 * rotationInterval
    /\ last.op = "middleware"
    /\ nCalls >= 1 /\ buckets[1].fires = nCalls

\* C15: while no bucket was rotated, no deadline fired, no request was
\* rejected and no response signalled more than once, the snapshot counts
\* exactly the outcomes signalled: successes = N, failures = M, no timeout,
\* and invocations = N + M plus the requests still in flight (N + M once
\* every request has signalled).
C15_CountsMatchOutcomes ==
    tally # Void
        => (/\ S.successes = tally.successes
            /\ S.failures = tally.failures
            /\ S.timeouts = 0
            /\ S.fires = tally.successes + tally.failures
                           + Cardinality({i \in 1..Len(calls) : ~calls[i].signalled}))

\* one success and one failure were signalled, every request has signalled
\* once and every open decision is taken
C15_Witness ==
    /\ tally # Void
    /\ tally.successes >= 1 /\ tally.failures >= 1
    /\ Len(calls) = 2 /\ \A i \in 1..2 : calls[i].signalled
    /\ failPending = 0
    /\ S.fires = 2 /\ S.successes = 1 /\ S.failures = 1

\* C16: the ring always holds rollingCountBuckets buckets; a rotation puts a
\* fresh all-zero bucket at the head, moves every bucket one position towards
\* the tail unchanged, and drops the bucket that was at the tail.
C16_RingRotation ==
    /\ [](Len(buckets) = options.rollingCountBuckets)
    /\ [][RotationStep
            => (/\ Len(buckets') = Len(buckets)
                /\ buckets'[1] = [failures |-> 0, successes |-> 0, fires |-> 0,
                                  timeouts |-> 0, latencyTimes |-> <<>>,
                                  isCircuitBreakerOpen |-> FALSE]
                /\ \A i \in 2..Len(buckets) : buckets'[i] = buckets[i - 1])]_vars

\* just after a rotation: the head is empty, the bucket behind it holds
\* counts, a sample and the flag, and the ring has its configured length
C16_Witness ==
    /\ rotationTimer.active /\ rotationTimer.due = now + rotationInterval
    /\ now >= 2 * rotationInterval
    /\ buckets[1] = createBucket
    /\ buckets[2].successes >= 1 /\ buckets[2].latencyTimes # <<>>
    /\ buckets[2].isCircuitBreakerOpen
    /\ Len(buckets) = options.rollingCountBuckets

\* s is in ascending order
IsSorted(s) == \A i \in 1..Len(s) - 1 : s[i] <= s[i + 1]

\* the number of times x occurs in s
Occurrences(s, x) == Cardinality({i \in 1..Len(s) : s[i] = x})

\* the samples of the window, bucket after bucket
Samples == ConcatLatency(buckets)

\* the percentiles the snapshot reports
P == statsPercentiles(buckets)

\* C17: with percentiles enabled, the snapshot's samples are the window's
\* samples in ascending order, and for every percentile p of the list over
\* n >= 1 samples the snapshot reports the sample of rank ceil(p * n) (the
\* first for p = 0, the last for p = 1), and 0 when there is no sample;
\* samples 50, 100, 150, 200, 250 give 100, 150, 200, 250 for p = 0.25, 0.5,
\* 0.75, 0.95.
C17_NearestRankPercentiles ==
    options.rollingPercentilesEnabled
        => LET lt == S.latencyTimes
               n == Len(lt)
               all == Samples
               p == P
           IN  /\ IsSorted(lt)
               /\ n = Len(all)
               /\ \A x \in Latencies : Occurrences(lt, x) = Occurrences(all, x)
               /\ \A i \in 1..Len(percentiles) :
                      p[i] = IF n = 0 THEN 0
                             ELSE IF percentiles[i] = 0 THEN lt[1]
                             ELSE lt[(percentiles[i] * n + 999) \div 1000]
               /\ n >= 1 => (p[1] = lt[1] /\ p[9] = lt[n])
               /\ lt = <<50, 100, 150, 200, 250>>
                    => (p[2] = 100 /\ p[3] = 150 /\ p[4] = 200 /\ p[6] = 250)

\* the five samples of the example, recorded out of order and spread over
\* two buckets by a rotation
C17_Witness ==
    /\ S.latencyTimes = <<50, 100, 150, 200, 250>>
    /\ ~IsSorted(Samples)
    /\ buckets[1].latencyTimes # <<>> /\ buckets[2].latencyTimes # <<>>
    /\ P = <<50, 100, 150, 200, 250, 250, 250, 250, 250>>

\* C18: a finish signal moves exactly one counter of the current bucket, by
\* one: failures when the configured error predicate holds for the status code
\* (default: code >= 400; the custom predicate: code >= 500), successes
\* otherwise; invocations and timeouts are not touched.
C18_FinishCountsOneOutcome ==
    [][(SignalStep /\ last'.op = "finish")
         => LET failed == IF options.isError = "default"
                          THEN last'.code >= 400 ELSE last'.code >= 500
            IN  /\ buckets'[1].failures = buckets[1].failures + (IF failed THEN 1 ELSE 0)
                /\ buckets'[1].successes = buckets[1].successes + (IF failed THEN 0 ELSE 1)
                /\ buckets'[1].fires = buckets[1].fires
                /\ buckets'[1].timeouts = buckets[1].timeouts
                /\ \A i \in 2..Len(buckets) : buckets'[i] = buckets[i]
                /\ failPending' = failPending + (IF failed THEN 1 ELSE 0)]_vars

\* a response with status 404 finished under the default predicate and was
\* counted as a failure
C18_Witness ==
    /\ last.op = "finish" /\ last.code = 404 /\ last.result = "failure"
    /\ options.isError = "default"
    /\ buckets[1].failures >= 1 /\ buckets[1].successes = 0
    /\ failPending = 1

\* C19: the snapshot's breaker-open flag is true after every transition into
\* open, false after every transition into closed, and no other step changes
\* it (rotations and the reset timer included).
C19_FlagFollowsState ==
    [][/\ (state # "open" /\ state' = "open") => SNext.isCircuitBreakerOpen
       /\ (state # "closed" /\ state' = "closed") => ~SNext.isCircuitBreakerOpen
       /\ ~(state # "open" /\ state' = "open") /\ ~(state # "closed" /\ state' = "closed")
            => SNext.isCircuitBreakerOpen = S.isCircuitBreakerOpen]_vars

\* C20: at most one reset callback is scheduled (the one of the handle, none
\* that the handle has lost), and the only warm-up timer is the one the
\* constructor starts.
C20_AtMostOneTimer ==
    /\ Len(strayTimers) + (IF resetTimeout.pending THEN 1 ELSE 0) <= 1
    /\ Cardinality(PendingResets) <= 1
    /\ warmupTimeout.pending
         => (options.allowWarmUp /\ warmupTimeout.due = options.rollingCountTimeout)

\* the circuit was opened after time 0 while the warm-up timer is running:
\* one reset timer and one warm-up timer are pending
C20_Witness ==
    /\ state = "open" /\ now >= 1
    /\ resetTimeout = setTimeout(now + options.resetTimeout)
    /\ strayTimers = <<>>
    /\ warmupTimeout.pending

\* C21: open() called while the state is open leaves the state, the window
\* (its flag included) and the reset timer with its due time as they were, and
\* starts no other timer; close() called while the state is closed leaves
\* every field of the breaker and of its window as it was.
C21_RedundantOpenCloseAreNoOps ==
    [][/\ (last'.op = "open()" /\ last'.pre = "open")
            => /\ state' = "open"
               /\ buckets' = buckets
               /\ resetTimeout' = resetTimeout
               /\ strayTimers' = strayTimers
       /\ (last'.op = "close()" /\ last'.pre = "closed")
            => UNCHANGED <<state, warmUp, resetTimeout, warmupTimeout,
                           strayTimers, buckets, rotationTimer>>]_vars

\* open() was called on an open circuit whose reset timer had run its whole
\* delay and was about to fire: it is still pending with the same due time
C21_Witness ==
    /\ last.op = "open()" /\ last.pre = "open"
    /\ state = "open"
    /\ resetTimeout.pending /\ resetTimeout.due = now
    /\ options.resetTimeout >= 1

\* C22: a failure report is atomic: from the increment of `failures` to the
\* open decision of the same report, no step other than that decision changes
\* the breaker or its window (no outcome report, no open(), close() or
\* shutdown(), no timer callback), so the decision reads the counters and the
\* state its own increment left.
C22_FailureReportIsAtomic ==
    [][(failPending > 0 /\ ~DecisionStep)
          => UNCHANGED <<state, warmUp, resetTimeout, warmupTimeout, strayTimers,
                         buckets, rotationTimer>>]_vars

\* the deadline timers scheduled in the event loop, now and after the step
NumDeadlines ==
    Cardinality({i \in 1..Len(calls) : calls[i].timer = "pending"})
NumDeadlinesNext ==
    Cardinality({i \in 1..Len(calls') : calls'[i].timer = "pending"})

\* C23: when a close signal of an admitted request arrives while its deadline
\* timer is pending, that timer is cancelled (one timer fewer is scheduled,
\* none is left behind for the request, no other request is touched) and one
\* failure is reported: `failures` of the current bucket grows by exactly one,
\* no other counter changes, and one more open decision is pending.  The
\* error predicate plays no part: this holds under the default and under the
\* custom predicate.
C23_CloseReportsOneFailure ==
    [][(last'.op = "close" /\ last'.timer = "pending")
          => /\ NumDeadlinesNext = NumDeadlines - 1
             /\ \E i \in 1..Len(calls) :
                    /\ calls[i].timer = "pending"
                    /\ calls' = [calls EXCEPT ![i].timer = "cleared",
                                              ![i].signalled = TRUE]
             /\ buckets' = increment(buckets, "failures", <<>>)
             /\ failPending' = failPending + 1]_vars

\* the close signal arrived before the deadline, under the custom predicate
\* (which takes only status codes from 500 for failures): one failure counted
C23_Witness ==
    /\ last.op = "close" /\ last.timer = "pending"
    /\ options.isError = "custom"
    /\ S.failures = 1 /\ S.successes = 0 /\ S.timeouts = 0
    /\ failPending = 1
    /\ NumDeadlines = 0

\* C24: every request that passes through the guard of an enabled breaker
\* adds exactly one to `fires` of the current bucket, whatever the state and
\* whether the request is forwarded or answered 503, and changes no other
\* counter, sample or bucket; a request answered 503 changes nothing else at
\* all (state, timers, registered requests).
C24_EveryInvocationCounted ==
    [][GuardStep
          => /\ Len(buckets') = Len(buckets)
             /\ buckets'[1].fires = buckets[1].fires + 1
             /\ buckets'[1] = [buckets[1] EXCEPT !.fires = buckets'[1].fires]
             /\ \A i \in 2..Len(buckets) : buckets'[i] = buckets[i]
             /\ last'.result \in {"next", "503"}
             /\ last'.result = "503"
                  => UNCHANGED <<state, warmUp, resetTimeout, warmupTimeout,
                                 strayTimers, rotationTimer, calls>>]_vars

\* a second request arrived while the circuit was open and was answered 503:
\* both requests are counted, and nothing else is
C24_Witness ==
    /\ last.op = "middleware" /\ last.pre = "open" /\ last.result = "503"
    /\ nCalls = 2
    /\ S.fires = 2 /\ S.failures = 0 /\ S.successes = 0 /\ S.timeouts = 0

\* C25: every outcome reported on a finish or close signal puts the latency of
\* its request into the window: while no bucket has been rotated and no
\* deadline has fired, the snapshot holds one latency sample for each success
\* and each failure signalled so far.
C25_OutcomesCarryLatency ==
    tally # Void => Len(S.latencyTimes) = tally.successes + tally.failures

\* a configuration within the documented ranges: at least one bucket, a
\* positive window duration, a threshold that is a percentage, a volume that is
\* not negative
Valid(o) ==
    /\ o.rollingCountBuckets >= 1
    /\ o.rollingCountTimeout > 0
    /\ o.errorThresholdPercentage \in 0..100
    /\ o.volumeThreshold >= 0

\* C26: an invalid configuration is rejected when the breaker is constructed:
\* every breaker that exists was constructed from a valid configuration.
C26_InvalidConfigRejected == Valid(options)

\* a reset callback is scheduled exactly when the state is open
TimerIffOpen == (PendingResets # {}) <=> (state = "open")

\* C27: a reset timer is pending if and only if the state is open, at
\* construction and after every step; so the callback that sets the state to
\* half-open runs only in state open, and half-open is entered from open and
\* from no other state, by that callback.
C27_ResetTimerIffOpen ==
    /\ TimerIffOpen
    /\ [][/\ TimerIffOpen'
          /\ last'.op = "reset" => (state = "open" /\ state' = "half-open")
          /\ (state # "half-open" /\ state' = "half-open")
               => (state = "open" /\ last'.op = "reset")]_vars

\* the reset timer of a circuit opened by open() fired in state open and made
\* the state half-open; no reset callback is scheduled any more
C27_Witness ==
    /\ last.op = "reset" /\ last.pre = "open" /\ state = "half-open"
    /\ nCalls = 0
    /\ PendingResets = {}

\* C28: the circuit does not stay open: whenever the state is open, with its
\* reset timer due within the time modelled, the state is later half-open,
\* closed or shutdown, whatever requests and open() calls arrive in between.
C28_OpenIsLeft ==
    (state = "open" /\ resetTimeout.due <= MaxTime) ~> (state # "open")

\* the only request arrived while the circuit was open and was answered 503;
\* the reset timer then fired at its due time and made the state half-open
C28_Witness ==
    /\ last.op = "reset" /\ last.pre = "open" /\ state = "half-open"
    /\ nCalls = 1 /\ calls = <<>> /\ nSignals = 0
    /\ S.fires = 1 /\ S.failures = 0 /\ S.successes = 0
    /\ tally = Void

\* C29 as stated: at every open decision the snapshot has at least one failure
\* and no more failures than invocations, so that the computed error rate lies
\* in (0, 100], whatever the interleaving of requests, signals, deadlines and
\* rotations.
C29_RateIsAPercentage ==
    [][DecisionStep => (1 <= S.failures /\ S.failures <= S.fires)]_vars

\* C29, amended: at every open decision the current bucket holds the failure
\* just counted, so the snapshot has at least one failure and the computed
\* error rate is positive (it is infinite when the window holds no
\* invocation).
C29_DecisionSeesItsFailure ==
    [][DecisionStep
          => /\ buckets[1].failures >= 1
             /\ S.failures >= 1
             /\ RateGT(errorRateOf(S), 0)]_vars

\* the request was counted two rotations before its failure was reported: the
\* decision read one failure and no invocation
C29_Witness ==
    /\ last.op = "fail" /\ last.pre = "closed"
    /\ failPending = 0
    /\ S.failures = 1 /\ S.fires = 0 /\ S.timeouts = 0
    /\ buckets[1].failures = 1

\* the number of rotations since the increment m was made
Age(m) == (rotationTimer.due - m.nextRotation) \div rotationInterval

\* the increments made fewer than rollingCountBuckets rotations ago
Young == {i \in 1..Len(recorded) : Age(recorded[i]) < options.rollingCountBuckets}

\* C30: counts age out of the window.  The snapshot holds exactly the
\* increments made fewer than rollingCountBuckets rotations ago: each of them
\* is in its counter and each latency sample among them is in `latencyTimes`,
\* and an increment made rollingCountBuckets rotations ago or earlier is in
\* neither; so once rollingCountBuckets rotations have passed without an
\* increment, every counter is 0 and no sample is left.
C30_CountsAgeOut ==
    /\ \A f \in Counters :
           S[f] = Cardinality({i \in Young : recorded[i].property = f})
    /\ Len(S.latencyTimes) = Cardinality({i \in Young : recorded[i].latency # <<>>})
    /\ Young = {}
         => (/\ \A f \in Counters : S[f] = 0
             /\ S.latencyTimes = <<>>)

\* of two increments with a latency sample, the first was made
\* rollingCountBuckets rotations ago and is gone, the second one rotation
\* later and is still counted
C30_Witness ==
    /\ Len(recorded) = 2
    /\ recorded[1].latency # <<>> /\ recorded[2].latency # <<>>
    /\ Age(recorded[1]) = options.rollingCountBuckets
    /\ Age(recorded[2]) = options.rollingCountBuckets - 1
    /\ Held(buckets) = 1
    /\ Len(S.latencyTimes) = 1

====
